---------------------------- MODULE Spec2Model ----------------------------
(***************************************************************************)
(* The day-planning engine of EduSync (class SuperAI, src/SuperAI.cpp).    *)
(*                                                                         *)
(* Time is counted in whole minutes from 00:00 of the planned day, so a    *)
(* QDateTime of the day before is negative and one of the day after is     *)
(* 1440 or more.  Every QDateTime the planner builds is an input plus a    *)
(* whole number of minutes, so minute resolution loses nothing as long as  *)
(* the inputs are on whole minutes.                                        *)
(***************************************************************************)
EXTENDS Integers, Sequences, FiniteSets, TLC

VARIABLES
    \* ---- interval merger called on its own
    fwBusy,          \* busy list of the last freeWindows call
    fwMin,           \* minBlockMin of the last freeWindows call
    fwOut,           \* list of Slots it returned
    fwCalled,        \* TRUE once freeWindows has been called
    \* ---- the ordering step of scheduleTasksIntoWindows on its own
    sortIn,          \* task list handed to std::sort
    sortOut,         \* the list after std::sort
    sortCalled,      \* TRUE once the list has been sorted
    \* ---- scheduleHabits called on its own
    shWindows,       \* argument: free windows
    shHabits,        \* argument: habits
    shOut,           \* blocks it returned
    shCalled,        \* TRUE once scheduleHabits has been called
    \* ---- the SuperAI object
    m_tasks,         \* task pool (setTasks)
    m_habits,        \* habit pool (setHabits)
    lastTasks,       \* history: argument of the most recent setTasks call
    lastHabits,      \* history: argument of the most recent setHabits call
    \* ---- one planDay call
    pc,              \* "idle" | "carve" | "habits" | "returned" | "aborted"
                     \* | "suggested"
    now,             \* QDateTime::currentDateTime() during the call
    existing,        \* argument: busy blocks
    argTasks,        \* argument: tasks
    argHabits,       \* argument: habits
    freeSlots,       \* planDay step 1
    tasks,           \* scheduleTasksIntoWindows: the sorted copy
    ti,              \* index of the task being carved
    needMin,         \* carve: remaining effort of that task
    pool,            \* carve: mutable copy of the windows
    out,             \* scheduleTasksIntoWindows: blocks emitted so far
    freeAfterTasks,  \* planDay step 3
    plannedHabits,   \* planDay step 3: result of scheduleHabits
    all,             \* planDay's return value
    totalTaskMin,    \* figure of the summary
    emitted          \* signals emitted, in order

vars == << fwBusy, fwMin, fwOut, fwCalled, sortIn, sortOut, sortCalled,
           shWindows, shHabits, shOut, shCalled, m_tasks, m_habits, lastTasks,
           lastHabits, pc, now, existing, argTasks, argHabits, freeSlots, tasks,
           ti, needMin, pool, out, freeAfterTasks, plannedHabits, all,
           totalTaskMin, emitted >>

fwVars == << fwBusy, fwMin, fwOut, fwCalled >>

sortVars == << sortIn, sortOut, sortCalled >>

shVars == << shWindows, shHabits, shOut, shCalled >>

planVars == << m_tasks, m_habits, lastTasks, lastHabits, pc, now, existing,
               argTasks, argHabits, freeSlots, tasks, ti, needMin, pool, out,
               freeAfterTasks, plannedHabits, all, totalTaskMin, emitted >>

\* the variables of the functions called on their own
pureVars == << fwVars, sortVars, shVars >>

-----------------------------------------------------------------------------
(* Program constants *)

DayStartMin == 360
DayEndMin == 1320
MinutesPerDay == 1440
MinUsableMin == 15
MinEffortMin == 15
PlanMinBlock == 15
PreBufferMin == 5
PostBufferMin == 10
WeekMin == 10080
LengthCapMin == 120
Sentinel == -1000000000

(* Bounds of the model *)

MaxBusy == 3
MaxExisting == 2
MaxTasks == 2
MaxHabits == 2
MaxBlocks == 24

MaxSortLen == 3

MaxTick == 1

-----------------------------------------------------------------------------
(* Small helpers *)

Max2(a, b) == IF a >= b THEN a ELSE b
Min2(a, b) == IF a <= b THEN a ELSE b

\* QDateTime::date() compared with the planned day: -1 before, 0 on it, 1 after
dateOf(t) == IF t < 0 THEN -1 ELSE IF t >= MinutesPerDay THEN 1 ELSE 0

\* QDateTime::time().hour()
hourOf(t) == (t % MinutesPerDay) \div 60

minutesBetween(s, e) == Max2(0, e - s)

mkEvent(title, s, e) == [title |-> title, s |-> s, e |-> e]

\* half-open intervals [s1,e1) and [s2,e2) share an instant
Overlap(s1, e1, s2, e2) == Max2(s1, s2) < Min2(e1, e2)

-----------------------------------------------------------------------------
(* freeWindows *)

\* mutant: an event is kept whether or not it ends after it starts
RECURSIVE ClampSegs_keepAll(_)
ClampSegs_keepAll(busy) ==
    IF busy = << >> THEN << >>
    ELSE LET ev == Head(busy)
             clampedS == Max2(DayStartMin, ev.s)
             clampedE == Min2(DayEndMin, ev.e)
             rest == ClampSegs_keepAll(Tail(busy))
         IN  IF dateOf(ev.s) > 0 \/ dateOf(ev.e) < 0 THEN rest
             ELSE << [s |-> clampedS, e |-> clampedE] >> \o rest

\* lines 270-280: clamp each busy event to the day window and collect
RECURSIVE ClampSegs(_)
ClampSegs(busy) ==
    IF busy = << >> THEN << >>
    ELSE LET ev == Head(busy)
             clampedS == Max2(DayStartMin, ev.s)
             clampedE == Min2(DayEndMin, ev.e)
             rest == ClampSegs(Tail(busy))
         IN  IF dateOf(ev.s) > 0 \/ dateOf(ev.e) < 0 THEN rest
             ELSE IF clampedS < clampedE
                  THEN << [s |-> clampedS, e |-> clampedE] >> \o rest
                  ELSE rest


\* line 283: std::sort by start.  The comparator is a.s < b.s and std::sort
\* is not stable, so every arrangement of the list with no pair out of order
\* is a possible result: segments that start together may come out in any
\* order.  InsertionsOfSeg puts one more segment into a sorted list at every
\* place that keeps it sorted.
InsertionsOfSeg(x, sorted) ==
    { SubSeq(sorted, 1, k) \o << x >> \o SubSeq(sorted, k + 1, Len(sorted)) :
        k \in { j \in 0..Len(sorted) :
                   /\ \A i \in 1..j : sorted[i].s <= x.s
                   /\ \A i \in (j + 1)..Len(sorted) : x.s <= sorted[i].s } }

RECURSIVE sortedSegOrders(_)
sortedSegOrders(segs) ==
    IF segs = << >> THEN { << >> }
    ELSE UNION { InsertionsOfSeg(Head(segs), o) :
                   o \in sortedSegOrders(Tail(segs)) }

\* lines 285-289: merge overlaps
RECURSIVE MergeSegs(_, _)
MergeSegs(segs, merged) ==
    IF segs = << >> THEN merged
    ELSE LET sg == Head(segs)
             n == Len(merged)
         IN  IF n = 0 \/ sg.s > merged[n].e
             THEN MergeSegs(Tail(segs), Append(merged, sg))
             ELSE MergeSegs(Tail(segs),
                            [merged EXCEPT ![n].e = Max2(merged[n].e, sg.e)])

\* mutant: the segments are merged without being sorted first
mergedBusy_unsorted(busy) == { MergeSegs(ClampSegs(busy), << >>) }

\* lines 270-289: the merged busy intervals, one list for every order the
\* sort may leave the segments in
mergedBusy(busy) ==
    { MergeSegs(o, << >>) : o \in sortedSegOrders(ClampSegs(busy)) }

\* mutant: a tail gap of exactly minBlockMin minutes is dropped
TailWindow_strict(cur, minBlockMin) ==
    IF cur < DayEndMin /\ minutesBetween(cur, DayEndMin) > minBlockMin
    THEN << [start |-> cur, end |-> DayEndMin] >>
    ELSE << >>

\* mutant: the gap after the last busy interval is forgotten
TailWindow_none(cur, minBlockMin) == << >>

\* line 301: the tail gap after the last merged interval
TailWindow(cur, minBlockMin) ==
    IF cur < DayEndMin /\ minutesBetween(cur, DayEndMin) >= minBlockMin
    THEN << [start |-> cur, end |-> DayEndMin] >>
    ELSE << >>

\* mutant: a gap is returned whatever its length
GapWindow_anyLength(cur, m, minBlockMin) ==
    IF cur < m.s THEN << [start |-> cur, end |-> m.s] >> ELSE << >>

\* lines 295-299: the gap before a merged interval
GapWindow(cur, m, minBlockMin) ==
    IF cur < m.s /\ minutesBetween(cur, m.s) >= minBlockMin
    THEN << [start |-> cur, end |-> m.s] >>
    ELSE << >>

\* lines 291-304: invert merged to get free windows
RECURSIVE InvertSegs(_, _, _)
InvertSegs(merged, cur, minBlockMin) ==
    IF merged = << >> THEN TailWindow(cur, minBlockMin)
    ELSE LET m == Head(merged)
         IN  GapWindow(cur, m, minBlockMin)
               \o InvertSegs(Tail(merged), Max2(cur, m.e), minBlockMin)

\* lines 262-307: the lists freeWindows may return
freeWindowsOf(busy, minBlockMin) ==
    { InvertSegs(mg, DayStartMin, minBlockMin) : mg \in mergedBusy(busy) }

\* lines 262-307: the list freeWindows returns.  The merge of line 288 keeps
\* the greater end, so every order the sort may leave gives the same list
\* and freeWindowsOf has one element.
freeWindows(busy, minBlockMin) ==
    CHOOSE ws \in freeWindowsOf(busy, minBlockMin) : TRUE


-----------------------------------------------------------------------------
(* Scores.  The code adds doubles; the model keeps the exact value of the   *)
(* sum and, in fl, how the double comes out against the doubles of the      *)
(* other sums of the same exact value.  A task score is (i + r/m) /         *)
(* ScoreScale with 0 <= r < m, a habit score is i / HabitScale.  Sums of    *)
(* the same terms are the same double; sums of different terms that are     *)
(* equal in exact arithmetic are rounded each in its own way, and the one   *)
(* with the greater fl is the greater double.  The initial best score -1e9  *)
(* is kept as a flag, because its scaled value does not fit the model       *)
(* checker's integers.                                                      *)

ScoreScale == 50400
HabitScale == 600

SentinelScore == [sentinel |-> TRUE, i |-> 0, r |-> 0, m |-> 1, fl |-> 0]

\* sc > -1e9, for a score that is not the sentinel itself
AboveSentinel(sc, scale) ==
    LET k == sc.i \div scale
        j == sc.i % scale
    IN  k > Sentinel \/ (k = Sentinel /\ (j > 0 \/ sc.r > 0))

\* a > b on doubles
ScoreGT(a, b, scale) ==
    IF a.sentinel THEN FALSE
    ELSE IF b.sentinel THEN AboveSentinel(a, scale)
    ELSE \/ a.i > b.i
         \/ a.i = b.i /\ a.r * b.m > b.r * a.m
         \/ a.i = b.i /\ a.r * b.m = b.r * a.m /\ a.fl > b.fl

\* mutant: a match earns 0.3
circTenths_weak(h, t) ==
    (IF t.mustMorning THEN (IF h >= 7 /\ h <= 12 THEN 3 ELSE -3) ELSE 0)
  + (IF t.mustAfternoon THEN (IF h >= 13 /\ h <= 17 THEN 3 ELSE -3) ELSE 0)

\* lines 323-326
circTenths(h, t) ==
    (IF t.mustMorning THEN (IF h >= 7 /\ h <= 12 THEN 10 ELSE -3) ELSE 0)
  + (IF t.mustAfternoon THEN (IF h >= 13 /\ h <= 17 THEN 10 ELSE -3) ELSE 0)

\* lines 328-333: urgency * WeekMin; nowv is the clock as read at line 331
urgencyNum(t, nowv) ==
    IF t.hasDeadline
    THEN LET minsLeft == t.deadline - nowv
         IN  Max2(0, Min2(WeekMin, WeekMin - minsLeft))
    ELSE 0

\* mutant: the length term is not capped at two hours
slotScore_uncapped(window, t, rd, fl) ==
    LET durMin == minutesBetween(window.start, window.end)
        h == hourOf(window.start)
        a == 22680 * (t.priority - 1)
             + 7 * urgencyNum(t, rd.urgency)
             + 4032 * circTenths(h, t)
             + 210 * durMin
        m == Max2(60, window.start - rd.early)
        e == 12 * ScoreScale
    IN  IF durMin < MinUsableMin THEN SentinelScore
        ELSE [sentinel |-> FALSE, i |-> a + (e \div m), r |-> e % m, m |-> m,
              fl |-> fl]

\* lines 317-343.  The function reads the clock twice: rd.urgency is
\* QDateTime::currentDateTime() of line 331, rd.early that of line 336.
\* fl is the rounding of the sum of line 342.
slotScore(window, t, rd, fl) ==
    LET durMin == minutesBetween(window.start, window.end)
        h == hourOf(window.start)
        \* 1.8*pr + 1.4*urgency + 0.8*circ + 0.5*length, times ScoreScale
        a == 22680 * (t.priority - 1)
             + 7 * urgencyNum(t, rd.urgency)
             + 4032 * circTenths(h, t)
             + 210 * Min2(LengthCapMin, durMin)
        \* 0.2*early = 0.2 / max(1, hours) = 12 / max(60, minutes)
        m == Max2(60, window.start - rd.early)
        e == 12 * ScoreScale
    IN  IF durMin < MinUsableMin THEN SentinelScore
        ELSE [sentinel |-> FALSE, i |-> a + (e \div m), r |-> e % m, m |-> m,
              fl |-> fl]

-----------------------------------------------------------------------------
(* scheduleTasksIntoWindows *)

\* lines 359-366: the sort comparator
taskLess(a, b) ==
    IF a.priority # b.priority THEN a.priority > b.priority
    ELSE IF a.hasDeadline /\ b.hasDeadline THEN a.deadline < b.deadline
    ELSE IF a.hasDeadline # b.hasDeadline THEN a.hasDeadline
    ELSE a.estimateMin > b.estimateMin

\* line 359: std::sort is not stable, so every arrangement of the list with no
\* pair out of order is a possible result
sortedTaskOrders(ts) ==
    LET n == Len(ts)
        perms == Permutations(1..n)
        ok(p) == \A i, j \in 1..n : i < j => ~taskLess(ts[p[j]], ts[p[i]])
    IN  { [i \in 1..n |-> ts[p[i]]] : p \in { q \in perms : ok(q) } }

\* the clock as the slotScore calls of one pass over n windows read it, when
\* it stands at nowv at the start of the pass and moves on by at most maxTick
\* minutes during it: one pair of readings per window, never going back
ClockReadings(nowv, n, maxTick) ==
    LET mono == { d \in [1..(2 * n) -> 0..maxTick] :
                    \A j \in 1..(2 * n - 1) : d[j] <= d[j + 1] }
    IN  { [i \in 1..n |-> [urgency |-> nowv + d[2 * i - 1],
                           early |-> nowv + d[2 * i]]] : d \in mono }

\* the readings of a clock that stands still during the pass
StableClock(nowv, n) == [i \in 1..n |-> [urgency |-> nowv, early |-> nowv]]

\* the clock after the pass
lastReading(clk, nowv) == IF clk = << >> THEN nowv ELSE clk[Len(clk)].early

\* the terms of the sum of line 342 that differ from window to window: the
\* circadian bias, the length term, the earliness term and the urgency as
\* the clock stood when it was computed.  Two windows with the same terms
\* get the same double.
slotTerms(window, t, rd) ==
    << circTenths(hourOf(window.start), t),
       Min2(LengthCapMin, minutesBetween(window.start, window.end)),
       Max2(60, window.start - rd.early),
       urgencyNum(t, rd.urgency) >>

\* a pass in which every sum comes out as its exact value compares
NoRounding(n) == [i \in 1..n |-> 0]

\* the fragments of at least 15 minutes that none scores above in exact
\* arithmetic
topSlots(pl, t, clk) ==
    LET usable == { i \in 1..Len(pl) :
                      minutesBetween(pl[i].s, pl[i].e) >= MinUsableMin }
        sc(i) == slotScore([start |-> pl[i].s, end |-> pl[i].e], t, clk[i], 0)
    IN  { i \in usable : \A j \in usable : ~ScoreGT(sc(j), sc(i), ScoreScale) }

\* the ways the sums of line 342 may be rounded in one pass over the pool:
\* the fragments of highest exact value all get the same double, or those
\* with the terms of one of them get a greater double than the others
SlotRoundings(pl, t, clk) ==
    LET top == topSlots(pl, t, clk)
        terms(i) == slotTerms([start |-> pl[i].s, end |-> pl[i].e], t, clk[i])
        mixed == { c \in top : \E d \in top : terms(d) # terms(c) }
    IN  { NoRounding(Len(pl)) }
            \cup { [i \in 1..Len(pl) |->
                       IF i \in top /\ terms(i) = terms(c) THEN 1 ELSE 0] :
                    c \in mixed }

\* lines 375-383: index of the best slot, 0 when there is none
RECURSIVE bestSlotFrom(_, _, _, _, _, _, _)
bestSlotFrom(pl, t, clk, fl, i, bestIdx, bestScore) ==
    IF i > Len(pl) THEN bestIdx
    ELSE LET w == [start |-> pl[i].s, end |-> pl[i].e]
             sc == slotScore(w, t, clk[i], fl[i])
         IN  IF minutesBetween(w.start, w.end) < MinUsableMin
             THEN bestSlotFrom(pl, t, clk, fl, i + 1, bestIdx, bestScore)
             ELSE IF ScoreGT(sc, bestScore, ScoreScale)
                  THEN bestSlotFrom(pl, t, clk, fl, i + 1, i, sc)
                  ELSE bestSlotFrom(pl, t, clk, fl, i + 1, bestIdx, bestScore)

bestSlot(pl, t, clk, fl) == bestSlotFrom(pl, t, clk, fl, 1, 0, SentinelScore)

\* mutant: the chunk is not capped by maxChunkMin
chunkLen_noCap(t, need, availMin) == Min2(need, availMin)

\* line 388
chunkLen(t, need, availMin) == Min2(t.maxChunkMin, Min2(need, availMin))

removeAt(sq, k) == [i \in 1..(Len(sq) - 1) |-> IF i < k THEN sq[i] ELSE sq[i + 1]]

TaskMark == "blue-circle "
HabitMark == "green-circle "
NoMark == ""

\* mutant: the two buffer lengths are exchanged
chunkBlocks_swapped(t, s, e) ==
    << mkEvent(<< TaskMark, t.title >>, s, e),
       mkEvent(<< NoMark, "Buffer" >>, s - PostBufferMin, s),
       mkEvent(<< NoMark, "Buffer" >>, e, e + PreBufferMin) >>

\* lines 399-401: the three blocks of one chunk
chunkBlocks(t, s, e) ==
    << mkEvent(<< TaskMark, t.title >>, s, e),
       mkEvent(<< NoMark, "Buffer" >>, s - PreBufferMin, s),
       mkEvent(<< NoMark, "Buffer" >>, e, e + PostBufferMin) >>

\* mutant: the window is advanced to the end of the chunk only
carvedPool_noBuffer(pl, k, eBuf) ==
    IF eBuf - PostBufferMin >= pl[k].e THEN removeAt(pl, k)
    ELSE [pl EXCEPT ![k].s = eBuf - PostBufferMin]

\* lines 403-405: advance the chosen window past the buffer tail
carvedPool(pl, k, eBuf) ==
    IF eBuf >= pl[k].e THEN removeAt(pl, k)
    ELSE [pl EXCEPT ![k].s = eBuf]

\* mutant: the effort is not raised to the minimum
effortOf_noClamp(t) == t.estimateMin

\* line 415
effortOf(t) == Max2(MinEffortMin, t.estimateMin)

\* lines 370-371
poolOf(windows) == [i \in 1..Len(windows) |-> [s |-> windows[i].start, e |-> windows[i].end]]

-----------------------------------------------------------------------------
(* scheduleHabits *)

\* lines 439-441: the window's start hour lies in the band of the habit's anchor
anchorHit(w, h) ==
    LET startH == hourOf(w.start)
    IN  \/ h.anchor = "morning" /\ startH <= 11
        \/ h.anchor = "after-lunch" /\ startH >= 12 /\ startH <= 15
        \/ h.anchor = "evening" /\ startH >= 17

\* mutant: the evening starts at 20:00
habitScore_lateEvening(w, h, fl) ==
    LET startH == hourOf(w.start)
        bonus(hit) == IF hit THEN 600 ELSE -120
    IN  [sentinel |-> FALSE, r |-> 0, m |-> 1,
         fl |-> IF anchorHit(w, h) THEN fl ELSE 0,
         i |-> 2 * minutesBetween(w.start, w.end)
               + (IF h.anchor = "morning" THEN bonus(startH <= 11) ELSE 0)
               + (IF h.anchor = "after-lunch" THEN bonus(startH >= 12 /\ startH <= 15) ELSE 0)
               + (IF h.anchor = "evening" THEN bonus(startH >= 20) ELSE 0)
               + 75 * (h.priority - 1)]

\* lines 438-442, times HabitScale.  The score is a sum of doubles: i is its
\* value in exact arithmetic.  Two windows of the same length and the same
\* anchor term get the same double.  A window in the band and one outside it
\* that is six hours longer have the same exact value, 0.2*h + 1.0 and
\* 0.2*(h + 6) - 0.2, but are rounded each in its own way, and the rounding
\* depends on the priority term added last: fl in {-1, 0, 1} says whether the
\* sum for the window in the band comes out below, equal to or above the other.
habitScore(w, h, fl) ==
    LET startH == hourOf(w.start)
        bonus(hit) == IF hit THEN 600 ELSE -120
    IN  [sentinel |-> FALSE, r |-> 0, m |-> 1,
         fl |-> IF anchorHit(w, h) THEN fl ELSE 0,
         i |-> 2 * minutesBetween(w.start, w.end)
               + (IF h.anchor = "morning" THEN bonus(startH <= 11) ELSE 0)
               + (IF h.anchor = "after-lunch" THEN bonus(startH >= 12 /\ startH <= 15) ELSE 0)
               + (IF h.anchor = "evening" THEN bonus(startH >= 17) ELSE 0)
               + 75 * (h.priority - 1)]

\* lines 431-445
RECURSIVE bestWindowFrom(_, _, _, _, _, _)
bestWindowFrom(windows, h, fl, i, bestIdx, best) ==
    IF i > Len(windows) THEN bestIdx
    ELSE LET sc == habitScore(windows[i], h, fl)
         IN  IF ScoreGT(sc, best, HabitScale)
             THEN bestWindowFrom(windows, h, fl, i + 1, i, sc)
             ELSE bestWindowFrom(windows, h, fl, i + 1, bestIdx, best)

bestWindow(windows, h, fl) == bestWindowFrom(windows, h, fl, 1, 0, SentinelScore)

\* mutant: the block is cut at the end of the window
habitBlock_clamped(windows, h, fl) ==
    LET bestIdx == bestWindow(windows, h, fl)
    IN  IF bestIdx >= 1
        THEN << mkEvent(<< HabitMark, h.title >>, windows[bestIdx].start,
                        Min2(windows[bestIdx].start + h.targetMinPerDay,
                             windows[bestIdx].end)) >>
        ELSE << >>

\* mutant: a habit is placed only when the window is long enough for it
habitBlock_fits(windows, h, fl) ==
    LET bestIdx == bestWindow(windows, h, fl)
    IN  IF bestIdx >= 1
           /\ minutesBetween(windows[bestIdx].start, windows[bestIdx].end)
                  >= h.targetMinPerDay
        THEN << mkEvent(<< HabitMark, h.title >>, windows[bestIdx].start,
                        windows[bestIdx].start + h.targetMinPerDay) >>
        ELSE << >>

\* lines 447-451
habitBlock(windows, h, fl) ==
    LET bestIdx == bestWindow(windows, h, fl)
    IN  IF bestIdx >= 1
        THEN << mkEvent(<< HabitMark, h.title >>, windows[bestIdx].start,
                        windows[bestIdx].start + h.targetMinPerDay) >>
        ELSE << >>

Range(sq) == { sq[i] : i \in 1..Len(sq) }

\* what decides the terms of a habit's scores, the window apart
flKey(h) == << h.anchor, h.priority >>

\* the windows that no window scores above in exact arithmetic
topWindows(windows, h) ==
    { b \in 1..Len(windows) :
        \A i \in 1..Len(windows) :
            ~ScoreGT(habitScore(windows[i], h, 0), habitScore(windows[b], h, 0),
                     HabitScale) }

\* the ways the sums of lines 438-442 may be rounded for the habits: one of
\* -1, 0, 1 for each anchor and priority, 0 unless windows in the band and
\* outside it share the highest exact value
Roundings(windows, habits) ==
    LET tied == { flKey(h) : h \in
                    { g \in Range(habits) :
                        \E i, j \in topWindows(windows, g) :
                            anchorHit(windows[i], g) /\ ~anchorHit(windows[j], g) } }
    IN  { [k \in { flKey(h) : h \in Range(habits) } |->
              IF k \in tied THEN f[k] ELSE 0] : f \in [tied -> { -1, 0, 1 }] }

\* lines 425-455
RECURSIVE scheduleHabits(_, _, _)
scheduleHabits(windows, habits, fl) ==
    IF habits = << >> THEN << >>
    ELSE habitBlock(windows, Head(habits), fl[flKey(Head(habits))])
         \o scheduleHabits(windows, Tail(habits), fl)

-----------------------------------------------------------------------------
(* planDay *)

\* mutant: the blocks just placed are left out of the busy set
habitBusy_stale(ex, placed) == ex

\* line 483: the busy set the habit windows are computed from
habitBusy(ex, placed) == ex \o placed

\* QString::contains("Buffer") on a block title
containsBuffer(title) == title[2] \in {"Buffer", "Buffer review"}

\* lines 494-497
RECURSIVE sumTaskMin(_)
sumTaskMin(evs) ==
    IF evs = << >> THEN 0
    ELSE (IF containsBuffer(Head(evs).title) THEN 0
          ELSE minutesBetween(Head(evs).s, Head(evs).e))
         + sumTaskMin(Tail(evs))

-----------------------------------------------------------------------------
(* Inputs the model draws from *)

Ev(title, s, e) == mkEvent(<< NoMark, title >>, s, e)

\* busy blocks for freeWindows called on its own
BusyCatalog ==
    { Ev("Lecture", 540, 600),        \* 09:00-10:00
      Ev("Lab", 570, 660),            \* overlaps the lecture
      Ev("Seminar", 605, 720),        \* 5 minutes after the lecture
      Ev("Night shift", -600, 420),   \* from the day before until 07:00
      Ev("Party", 1290, 1500),        \* 21:30 until 01:00 of the next day
      Ev("Typo", 720, 660),           \* end before start
      Ev("Yesterday", -300, -200),    \* not on the planned day
      Ev("Retreat", 360, 1320) }      \* the whole day window

MinBlockSet == {0, 15, 30, 480}

\* busy blocks that end at or before their start
MalformedBusy ==
    { Ev("Typo", 720, 660),
      Ev("Instant", 600, 600),
      Ev("Early typo", 300, 200),
      Ev("Late typo", 1400, 1330),
      Ev("Backwards", 1500, -100) }

\* busy blocks for planDay, in calendar order
ExistingList ==
    << Ev("Night shift", -600, 420),
       Ev("Lecture", 540, 600),
       Ev("Workshop", 455, 1400),
       Ev("Retreat", 360, 1320) >>

NoDeadline == 0

Task(title, est, prio, hasDl, dl, mm, ma, split, maxChunk) ==
    [title |-> title, estimateMin |-> est, priority |-> prio,
     hasDeadline |-> hasDl, deadline |-> dl,
     mustMorning |-> mm, mustAfternoon |-> ma,
     splitOK |-> split, maxChunkMin |-> maxChunk]

TaskCatalog ==
    { Task("Essay", 60, 5, FALSE, NoDeadline, FALSE, FALSE, FALSE, 120),
      Task("Essay draft", 60, 2, FALSE, NoDeadline, FALSE, FALSE, FALSE, 120),
      Task("Reading", 90, 4, FALSE, NoDeadline, FALSE, FALSE, TRUE, 45),
      Task("Reading notes", 90, 3, FALSE, NoDeadline, FALSE, FALSE, TRUE, 45),
      Task("Inbox", 30, 3, FALSE, NoDeadline, FALSE, FALSE, TRUE, -10),
      Task("Buffer review", 10, 3, TRUE, 1200, TRUE, FALSE, TRUE, 120) }

\* tasks that tie on priority, on deadline (two of them on the same valid
\* deadline), or on both
SortCatalog ==
    { Task("Quiz prep", 45, 3, TRUE, 1200, FALSE, FALSE, TRUE, 120),
      Task("Lab report", 90, 3, TRUE, 1200, FALSE, FALSE, TRUE, 120),
      Task("Slides", 30, 3, TRUE, 900, FALSE, FALSE, TRUE, 120),
      Task("Laundry", 60, 3, FALSE, NoDeadline, FALSE, FALSE, TRUE, 120),
      Task("Groceries", 20, 3, FALSE, NoDeadline, FALSE, FALSE, TRUE, 120),
      Task("Thesis", 30, 5, FALSE, NoDeadline, FALSE, FALSE, TRUE, 120) }

Habit(title, target, anchor, prio) ==
    [title |-> title, targetMinPerDay |-> target, anchor |-> anchor, priority |-> prio]

HabitCatalog ==
    { Habit("Stretch", 20, "morning", 3),
      Habit("Walk", 30, "evening", 5),
      Habit("Journal", 20, "", 1) }

\* 20:00 of the day before, 10:00 of the planned day
NowSet == {-240, 600}

\* the scenario of one lecture and one essay: 09:00-10:00 busy, one task of
\* 60 minutes, priority 5, not splittable
LectureDay == << Ev("Lecture", 540, 600) >>

EssayTask == Task("Essay", 60, 5, FALSE, NoDeadline, FALSE, FALSE, FALSE, 120)

\* current times from two days before the planned day to two days after it,
\* every 20 minutes, and two far ones
ClockSet == { 20 * k : k \in -144..144 } \cup { -100000, 100000 }

Window(s, e) == [start |-> s, end |-> e]

\* 08:00-09:00 and 19:00-20:00
TwoWindows == << Window(480, 540), Window(1140, 1200) >>

\* lists of free windows for scheduleHabits called on its own
WindowLists ==
    { << >>,
      << Window(360, 1320) >>,
      TwoWindows,
      << Window(720, 780), Window(1140, 1200) >>,
      << Window(360, 420), Window(480, 540), Window(1140, 1200) >>,
      << Window(360, 420), Window(600, 780), Window(1140, 1320) >>,
      << Window(360, 510), Window(810, 1320) >> }

PrioritySet == { -2, 1, 2, 3, 4, 5, 40 }

\* a morning habit and an evening habit of every priority of PrioritySet
AnchoredHabits ==
    { Habit("Stretch", 20, "morning", p) : p \in PrioritySet }
        \cup { Habit("Walk", 30, "evening", p) : p \in PrioritySet }

\* a habit without an anchor, longer than the shorter windows
FreeHabits == { Habit("Journal", 90, "", p) : p \in { 1, 5 } }

\* tasks due at 23:00 of the planned day, one without a deadline, and two
\* that are not splittable, have a negative maxChunkMin and differ in
\* priority (and title) only
ClockTasks ==
    { Task("Report", 60, 3, TRUE, 1380, FALSE, FALSE, TRUE, 30),
      Task("Poster", 45, 4, TRUE, 1380, FALSE, FALSE, FALSE, 30),
      Task("Errand", 45, 3, FALSE, NoDeadline, FALSE, FALSE, TRUE, 35),
      Task("Memo", 30, 2, FALSE, NoDeadline, FALSE, FALSE, FALSE, -10),
      Task("Memo reply", 30, 4, FALSE, NoDeadline, FALSE, FALSE, FALSE, -10) }

\* 06:00 five days before the planned day, 20:00 of the day before, 10:00 of
\* the planned day
CallTimes == { -6840, -240, 600 }

ReadingTask == Task("Reading", 90, 4, FALSE, NoDeadline, FALSE, FALSE, TRUE, 45)

NotesTask == Task("Reading notes", 90, 3, FALSE, NoDeadline, FALSE, FALSE, TRUE, 45)

\* lists handed to setTasks and to setHabits
PoolTaskLists == { << >>, << ReadingTask >>, << NotesTask, ReadingTask >> }

PoolHabitLists ==
    { << >>,
      << Habit("Walk", 30, "evening", 5) >>,
      << Habit("Journal", 20, "", 1), Habit("Walk", 30, "evening", 5) >> }

WorkshopDay == << Ev("Workshop", 455, 1400) >>

\* sequences of at most n elements of S
RECURSIVE SeqsUpTo(_, _)
SeqsUpTo(S, n) ==
    IF n = 0 THEN { << >> } ELSE SeqsUpTo(S, n - 1) \cup [1..n -> S]

\* sequences without repetition of at most n elements of S
DistinctSeqs(S, n) ==
    { sq \in SeqsUpTo(S, n) : \A i, j \in 1..Len(sq) : i < j => sq[i] # sq[j] }

\* sub-lists of lst (order kept) of at most n elements
RECURSIVE PickFrom(_, _, _)
PickFrom(lst, idx, k) ==
    IF k = 0 THEN << >>
    ELSE LET i == CHOOSE x \in idx : \A y \in idx : x <= y
         IN  << lst[i] >> \o PickFrom(lst, idx \ {i}, k - 1)

SubLists(lst, n) ==
    { PickFrom(lst, idx, Cardinality(idx)) :
        idx \in { x \in SUBSET (1..Len(lst)) : Cardinality(x) <= n } }

-----------------------------------------------------------------------------
(* State machine *)

Init ==
    /\ fwBusy = << >> /\ fwMin = 0 /\ fwOut = << >> /\ fwCalled = FALSE
    /\ sortIn = << >> /\ sortOut = << >> /\ sortCalled = FALSE
    /\ shWindows = << >> /\ shHabits = << >> /\ shOut = << >> /\ shCalled = FALSE
    /\ m_tasks = << >> /\ m_habits = << >>
    /\ lastTasks = << >> /\ lastHabits = << >>
    /\ pc = "idle" /\ now = 0
    /\ existing = << >> /\ argTasks = << >> /\ argHabits = << >>
    /\ freeSlots = << >> /\ tasks = << >> /\ ti = 0 /\ needMin = 0
    /\ pool = << >> /\ out = << >>
    /\ freeAfterTasks = << >> /\ plannedHabits = << >> /\ all = << >>
    /\ totalTaskMin = 0 /\ emitted = << >>

\* freeWindows(day, busy, minBlockMin), called on its own
FreeWindowsCall ==
    \E busy \in SeqsUpTo(BusyCatalog, MaxBusy), m \in MinBlockSet :
        /\ ~fwCalled
        /\ fwBusy' = busy
        /\ fwMin' = m
        /\ fwOut' \in freeWindowsOf(busy, m)
        /\ fwCalled' = TRUE
        /\ UNCHANGED << planVars, sortVars, shVars >>

\* scheduleTasksIntoWindows line 358-366: the ordering of the task list, on
\* its own
SortCall ==
    \E ts \in DistinctSeqs(SortCatalog, MaxSortLen) :
        /\ ~sortCalled
        /\ sortIn' = ts
        /\ sortOut' \in sortedTaskOrders(ts)
        /\ sortCalled' = TRUE
        /\ UNCHANGED << planVars, fwVars, shVars >>

\* scheduleHabits(day, habits, windows), called on its own
ScheduleHabitsCall ==
    \E ws \in WindowLists,
       hs \in DistinctSeqs(AnchoredHabits \cup FreeHabits, MaxHabits) :
        /\ ~shCalled
        /\ shWindows' = ws
        /\ shHabits' = hs
        /\ \E fl \in Roundings(ws, hs) : shOut' = scheduleHabits(ws, hs, fl)
        /\ shCalled' = TRUE
        /\ UNCHANGED << planVars, fwVars, sortVars >>

\* mutant: the list is added to the pool
setTasks_append(old, t) == old \o t

\* line 74: m_tasks = t
setTasks(old, t) == t

\* line 75: m_habits = h
setHabits(old, h) == h

SetTasks ==
    \E t \in PoolTaskLists :
        /\ pc = "idle"
        /\ m_tasks' = setTasks(m_tasks, t)
        /\ lastTasks' = t
        /\ UNCHANGED << m_habits, lastHabits, pc, now, existing, argTasks,
                        argHabits, freeSlots, tasks, ti, needMin, pool, out,
                        freeAfterTasks, plannedHabits, all, totalTaskMin,
                        emitted >>
        /\ UNCHANGED pureVars

SetHabits ==
    \E h \in PoolHabitLists :
        /\ pc = "idle"
        /\ m_habits' = setHabits(m_habits, h)
        /\ lastHabits' = h
        /\ UNCHANGED << m_tasks, lastTasks, pc, now, existing, argTasks,
                        argHabits, freeSlots, tasks, ti, needMin, pool, out,
                        freeAfterTasks, plannedHabits, all, totalTaskMin,
                        emitted >>
        /\ UNCHANGED pureVars

\* planDay lines 474-480 and scheduleTasksIntoWindows lines 355-371:
\* everything up to the first pass of the placement loop.  The habits argument
\* is not read before line 487, and is drawn there.
PlanDayFrom(exSet, tsSet, nowSet) ==
    \E ex \in exSet, ts \in tsSet, n \in nowSet :
      /\ pc = "idle"
      /\ \E fs \in freeWindowsOf(ex, PlanMinBlock) :
        LET eff == IF ts = << >> THEN m_tasks ELSE ts
        IN  /\ existing' = ex /\ argTasks' = ts /\ now' = n
            /\ freeSlots' = fs
            /\ out' = << >>
            /\ emitted' = << >>
            /\ IF eff = << >> \/ fs = << >>
               THEN /\ pc' = "habits"
                    /\ tasks' = eff
                    /\ UNCHANGED << ti, needMin, pool >>
               ELSE /\ pc' = "carve"
                    /\ tasks' \in sortedTaskOrders(eff)
                    /\ ti' = 1
                    /\ needMin' = effortOf(tasks'[1])
                    /\ pool' = poolOf(fs)
            /\ UNCHANGED << m_tasks, m_habits, lastTasks, lastHabits, argHabits,
                            freeAfterTasks, plannedHabits, all, totalTaskMin >>
            /\ UNCHANGED pureVars

PlanDayCall ==
    PlanDayFrom(SubLists(ExistingList, MaxExisting),
                DistinctSeqs(TaskCatalog, MaxTasks), NowSet)

\* lines 413-418: carve returned; go on with the next task, or return the blocks
NextTask ==
    IF ti < Len(tasks)
    THEN /\ ti' = ti + 1
         /\ needMin' = effortOf(tasks[ti + 1])
         /\ pc' = "carve"
    ELSE /\ pc' = "habits"
         /\ UNCHANGED << ti, needMin >>

\* mutant: a task that may not be split is split all the same
anotherPass_always(t, rest) == rest > 0

\* lines 374 and 407-408: the loop takes another pass for the task
anotherPass(t, rest) == t.splitOK /\ rest > 0

\* lines 374-409: one pass of the placement loop that places a chunk, the
\* clock moving on by at most maxTick minutes while the windows are scored
CarveStep(maxTick) ==
    /\ pc = "carve"
    /\ needMin > 0
    /\ \E clk \in ClockReadings(now, Len(pool), maxTick) :
       \E fl \in SlotRoundings(pool, tasks[ti], clk) :
       LET t == tasks[ti]
           bestIdx == bestSlot(pool, t, clk, fl)
       IN  /\ bestIdx >= 1
           /\ now' = lastReading(clk, now)
           /\ Len(out) + 3 <= MaxBlocks
           /\ LET chosen == pool[bestIdx]
                  availMin == minutesBetween(chosen.s, chosen.e)
                  chunk == chunkLen(t, needMin, availMin)
                  s == chosen.s
                  e == s + chunk
                  eBuf == e + PostBufferMin
              IN  /\ out' = out \o chunkBlocks(t, s, e)
                  /\ pool' = carvedPool(pool, bestIdx, eBuf)
                  /\ IF anotherPass(t, needMin - chunk)
                     THEN /\ needMin' = needMin - chunk
                          /\ UNCHANGED << ti, pc >>
                     ELSE NextTask
    /\ UNCHANGED << m_tasks, m_habits, lastTasks, lastHabits, existing,
                    argTasks, argHabits, freeSlots, tasks, freeAfterTasks,
                    plannedHabits, all, totalTaskMin, emitted >>
    /\ UNCHANGED pureVars

\* a pass during which the clock stands still
CarveChunk == CarveStep(0)

\* mutant: an unplaceable task is an error
CarveGiveUp_abort ==
    /\ pc = "carve"
    /\ needMin > 0
    /\ bestSlot(pool, tasks[ti], StableClock(now, Len(pool)),
                NoRounding(Len(pool))) = 0
    /\ pc' = "aborted"
    /\ UNCHANGED << m_tasks, m_habits, lastTasks, lastHabits, now, existing,
                    argTasks, argHabits, freeSlots, tasks, ti, needMin, pool, out,
                    freeAfterTasks, plannedHabits, all, totalTaskMin, emitted >>
    /\ UNCHANGED pureVars

\* line 384: nowhere to place more time
CarveGiveUp ==
    /\ pc = "carve"
    /\ needMin > 0
    /\ bestSlot(pool, tasks[ti], StableClock(now, Len(pool)),
                NoRounding(Len(pool))) = 0
    /\ NextTask
    /\ UNCHANGED << m_tasks, m_habits, lastTasks, lastHabits, now, existing,
                    argTasks, argHabits, freeSlots, tasks, pool, out, freeAfterTasks, plannedHabits,
                    all, totalTaskMin, emitted >>
    /\ UNCHANGED pureVars

\* lines 399-401 when the block list cannot grow any more: the memory of the
\* process is finite, and MaxBlocks stands for it
CarveAbort ==
    /\ pc = "carve"
    /\ needMin > 0
    /\ bestSlot(pool, tasks[ti], StableClock(now, Len(pool)),
                NoRounding(Len(pool))) >= 1
    /\ Len(out) + 3 > MaxBlocks
    /\ pc' = "aborted"
    /\ UNCHANGED << m_tasks, m_habits, lastTasks, lastHabits, now, existing,
                    argTasks, argHabits, freeSlots, tasks, ti, needMin, pool, out, freeAfterTasks,
                    plannedHabits, all, totalTaskMin, emitted >>
    /\ UNCHANGED pureVars

\* planDay lines 482-510
PlanDayReturnFrom(hsSet) ==
    /\ pc = "habits"
    /\ \E fat \in freeWindowsOf(habitBusy(existing, out), PlanMinBlock) :
       \E hs \in hsSet :
        /\ argHabits' = hs
        /\ LET effHabits == IF hs = << >> THEN m_habits ELSE hs
           IN  \E fl \in Roundings(fat, effHabits) :
               LET ph == scheduleHabits(fat, effHabits, fl)
               IN  /\ freeAfterTasks' = fat
                   /\ plannedHabits' = ph
                   /\ all' = out \o ph
                   /\ totalTaskMin' = sumTaskMin(out)
                   /\ emitted' = << [sig |-> "analysisComplete",
                                     text |-> << sumTaskMin(out), Len(ph) >>],
                                    [sig |-> "plannedEventsReady", events |-> out \o ph],
                                    [sig |-> "suggestionsReady", events |-> out \o ph] >>
        /\ pc' = "returned"
        /\ UNCHANGED << m_tasks, m_habits, lastTasks, lastHabits, now, existing,
                        argTasks, freeSlots, tasks, ti, needMin, pool, out >>
        /\ UNCHANGED pureVars

PlanDayReturn == PlanDayReturnFrom(DistinctSeqs(HabitCatalog, MaxHabits))

\* One planDay call per behaviour: the planner keeps nothing from one call
\* to the next but the two pools.  In this specification the clock stands
\* still while planDay runs; SpecClock and SpecLectureDay let it move on.
Next ==
    \/ PlanDayCall
    \/ CarveChunk
    \/ CarveGiveUp
    \/ CarveAbort
    \/ PlanDayReturn

Spec == Init /\ [][Next]_vars

\* the functions called on their own, once per behaviour
NextFW == FreeWindowsCall

SpecFW == Init /\ [][NextFW]_vars

NextSort == SortCall

SpecSort == Init /\ [][NextSort]_vars

NextHabits == ScheduleHabitsCall

SpecHabits == Init /\ [][NextHabits]_vars

\* a pass during which the clock may move on
CarveChunkTick == CarveStep(MaxTick)

\* a call without habits
PlanDayReturnBare == PlanDayReturnFrom({ << >> })

\* planDay on the lecture day with the essay, at any time of ClockSet
LectureDayCall == PlanDayFrom({ LectureDay }, { << EssayTask >> }, ClockSet)

NextLectureDay ==
    \/ LectureDayCall
    \/ CarveChunkTick
    \/ PlanDayReturnBare

SpecLectureDay == Init /\ [][NextLectureDay]_vars

\* planDay while the clock runs
ClockCall ==
    PlanDayFrom({ LectureDay, WorkshopDay },
                DistinctSeqs(ClockTasks, MaxTasks), CallTimes)

NextClock ==
    \/ ClockCall
    \/ CarveChunkTick
    \/ CarveGiveUp
    \/ PlanDayReturnBare

SpecClock == Init /\ [][NextClock]_vars

\* planDay with the pools in use
PoolsCall ==
    PlanDayFrom({ << >>, WorkshopDay }, { << >>, << EssayTask >> }, { 600 })

PoolsReturn == PlanDayReturnFrom({ << >>, << Habit("Stretch", 20, "morning", 3) >> })

\* setTasks and setHabits any number of times, then one planDay call
NextPools ==
    \/ SetTasks
    \/ SetHabits
    \/ PoolsCall
    \/ CarveChunk
    \/ CarveGiveUp
    \/ PoolsReturn

SpecPools == Init /\ [][NextPools]_vars

\* calendars that leave two free windows: 06:00-08:00 and 12:45-13:00;
\* 07:00-07:20 and 13:00-17:00; 06:00-12:00 and 17:00-17:15; 06:00-08:00 and
\* 13:00-17:00; 08:00-08:22 and 12:00-12:23, which score the same in exact
\* arithmetic at 20:00 of the day before for a task without an afternoon flag
BiasDays ==
    { << Ev("Seminar", 480, 765), Ev("Lab", 780, 1320) >>,
      << Ev("Commute", 360, 420), Ev("Seminar", 440, 780), Ev("Lab", 1020, 1320) >>,
      << Ev("Seminar", 720, 1020), Ev("Lab", 1035, 1320) >>,
      << Ev("Seminar", 480, 780), Ev("Lab", 1020, 1320) >>,
      << Ev("Seminar", 360, 480), Ev("Lab", 502, 720), Ev("Club", 743, 1320) >> }

\* a morning task, an afternoon task due at 23:00, an afternoon task with a
\* negative maxChunkMin, and a task without a flag
BiasTasks ==
    { Task("Revision", 60, 3, FALSE, NoDeadline, TRUE, FALSE, TRUE, 45),
      Task("Practice", 60, 3, TRUE, 1380, FALSE, TRUE, TRUE, 45),
      Task("Parcel", 30, 5, FALSE, NoDeadline, FALSE, TRUE, FALSE, -500),
      Task("Tidy", 30, 2, FALSE, NoDeadline, FALSE, FALSE, FALSE, 120) }

\* current times every four hours from the day before to the day after, 05:30
\* and 12:50 of the planned day, and two far ones
BiasTimes == { 240 * k : k \in -6..7 } \cup { 330, 770, -40000, 100000 }

BiasCall == PlanDayFrom(BiasDays, DistinctSeqs(BiasTasks, MaxTasks), BiasTimes)

NextBias ==
    \/ BiasCall
    \/ CarveChunkTick
    \/ CarveGiveUp
    \/ PlanDayReturnBare

SpecBias == Init /\ [][NextBias]_vars

\* generateSmartSuggestions lines 116-117: planDay(date, emptyExisting,
\* m_tasks, m_habits) is entered
SuggestCall == PlanDayFrom({ << >> }, { m_tasks }, CallTimes)

\* that planDay call returns
SuggestPlanReturn == PlanDayReturnFrom({ m_habits })

\* generateSmartSuggestions lines 119-121: the planned blocks are copied to a
\* list and suggestionsReady is emitted with it
SuggestEmit ==
    /\ pc = "returned"
    /\ pc' = "suggested"
    /\ emitted' = Append(emitted, [sig |-> "suggestionsReady", events |-> all])
    /\ UNCHANGED << m_tasks, m_habits, lastTasks, lastHabits, now, existing,
                    argTasks, argHabits, freeSlots, tasks, ti, needMin, pool,
                    out, freeAfterTasks, plannedHabits, all, totalTaskMin >>
    /\ UNCHANGED pureVars

\* setTasks and setHabits any number of times, then one call of
\* generateSmartSuggestions
NextSuggest ==
    \/ SetTasks
    \/ SetHabits
    \/ SuggestCall
    \/ CarveChunk
    \/ SuggestPlanReturn
    \/ SuggestEmit

SpecSuggest == Init /\ [][NextSuggest]_vars

-----------------------------------------------------------------------------
(* Vocabulary of the properties *)

SetMax(S) == CHOOSE x \in S : \A y \in S : y <= x
SetMin(S) == CHOOSE x \in S : \A y \in S : x <= y

Returned == pc = "returned"

IsChunk(b) == b.title[1] = TaskMark
IsBuffer(b) == b.title = << NoMark, "Buffer" >>
IsHabitBlock(b) == b.title[1] = HabitMark

BlocksOverlap(a, b) == Overlap(a.s, a.e, b.s, b.e)

\* the habits scheduleHabits is given (line 489)
EffHabits == IF argHabits = << >> THEN m_habits ELSE argHabits

\* minutes of the day window
DayMinutes == DayStartMin..(DayEndMin - 1)

\* minutes of the day window inside a free window returned by freeWindows
FreeMinutes == UNION { w.start..(w.end - 1) : w \in Range(fwOut) }

\* minutes of the day window inside a busy interval given to freeWindows
BusyMinutes ==
    UNION { Max2(b.s, DayStartMin)..(Min2(b.e, DayEndMin) - 1) : b \in Range(fwBusy) }

\* length of the gap between busy intervals (or the bounds of the day) that
\* holds the minute t, a minute no busy interval covers
GapLen(t) ==
    LET live == { b \in Range(fwBusy) : b.s < b.e }
        lo == SetMax({DayStartMin} \cup { Min2(b.e, DayEndMin) : b \in { x \in live : x.s <= t } })
        hi == SetMin({DayEndMin} \cup { b.s : b \in { x \in live : x.s > t } })
    IN  hi - lo

\* minutes of the day window that neither a free window nor a busy interval covers
Uncovered == DayMinutes \ (FreeMinutes \cup BusyMinutes)

-----------------------------------------------------------------------------
(* Properties *)

\* C1: no two blocks of the list planDay returns (task chunks, buffers and
\* habit blocks together) overlap in time.
C1_NoOverlapInOutput ==
    Returned =>
        \A i, j \in 1..Len(all) : i < j => ~BlocksOverlap(all[i], all[j])

\* C2: no block planDay returns overlaps a busy interval of the existing
\* input.
C2_NoOverlapWithExisting ==
    Returned =>
        \A b \in Range(all), x \in Range(existing) : ~BlocksOverlap(b, x)

\* C3: the windows freeWindows returns are in ascending start order, pairwise
\* non-overlapping, and none overlaps an input busy interval.
C3_WindowsOrderedDisjoint ==
    fwCalled =>
        /\ \A i \in 1..(Len(fwOut) - 1) : fwOut[i].start < fwOut[i + 1].start
        /\ \A i, j \in 1..Len(fwOut) :
               i < j => ~Overlap(fwOut[i].start, fwOut[i].end,
                                 fwOut[j].start, fwOut[j].end)
        /\ \A w \in Range(fwOut), b \in Range(fwBusy) :
               ~Overlap(w.start, w.end, b.s, b.e)

C3_Witness ==
    /\ fwCalled
    /\ Len(fwOut) >= 2
    /\ \E i, j \in 1..Len(fwBusy) :
           i < j /\ fwBusy[i] # fwBusy[j] /\ BlocksOverlap(fwBusy[i], fwBusy[j])

\* C4 as stated: the free windows and the busy intervals clamped to the day
\* window cover every minute of [06:00, 22:00].
C4_UnionIsWholeDay ==
    fwCalled => Uncovered = {}

\* C4 as amended: every minute of [06:00, 22:00] is covered by a free window or
\* by a busy interval clamped to the day window, except the minutes of the
\* gaps shorter than minBlockMin; with minBlockMin <= 0 none is left out.
C4_UnionWithShortGaps ==
    fwCalled =>
        /\ \A t \in Uncovered : GapLen(t) < fwMin
        /\ fwMin <= 0 => Uncovered = {}

C4_Witness ==
    /\ fwCalled
    /\ fwOut # << >>
    /\ BusyMinutes # {}
    /\ Uncovered # {}

\* C5: every window freeWindows returns lasts at least minBlockMin minutes.
C5_MinimumLength ==
    fwCalled =>
        \A w \in Range(fwOut) : minutesBetween(w.start, w.end) >= fwMin

C5_Witness ==
    /\ fwCalled
    /\ fwMin = 30
    /\ fwOut # << >>
    /\ Uncovered # {}

\* C6: for every task chunk emitted there is a buffer of exactly 5 minutes
\* ending at the chunk's start and a buffer of exactly 10 minutes starting at
\* the chunk's end.
C6_BufferAdjacency ==
    \A c \in Range(out) :
        IsChunk(c) =>
            /\ \E b \in Range(out) :
                   IsBuffer(b) /\ b.e = c.s /\ b.e - b.s = 5
            /\ \E b \in Range(out) :
                   IsBuffer(b) /\ b.s = c.e /\ b.e - b.s = 10

C6_Witness ==
    /\ Returned
    /\ Cardinality({ i \in 1..Len(out) : IsChunk(out[i]) }) >= 3

\* C7: a planning call runs to completion: the placement loop never runs
\* until the block list exhausts the memory.
C7_RunsToCompletion == pc # "aborted"

\* C8: scheduleHabits returns at most one block per habit: one for each habit,
\* in the order of the habits, when the recomputed window list is not empty,
\* and none when it is empty.
C8_OneBlockPerHabit ==
    Returned =>
        /\ Len(plannedHabits) <= Len(EffHabits)
        /\ \A b \in Range(plannedHabits) : IsHabitBlock(b)
        /\ freeAfterTasks = << >> => plannedHabits = << >>
        /\ freeAfterTasks # << >> =>
               /\ Len(plannedHabits) = Len(EffHabits)
               /\ \A i \in 1..Len(EffHabits) :
                      plannedHabits[i].title = << HabitMark, EffHabits[i].title >>

C8_Witness ==
    /\ Returned
    /\ Len(argHabits) = 2
    /\ Len(plannedHabits) = 2
    /\ Len(freeAfterTasks) >= 2
    /\ out # << >>

\* C9: no habit block starts at an instant covered by an existing busy block,
\* a task chunk or a buffer placed in the same run.
C9_HabitStartsInFreeTime ==
    Returned =>
        \A h \in Range(plannedHabits), b \in Range(existing) \cup Range(out) :
            ~(b.s <= h.s /\ h.s < b.e)

C9_Witness ==
    /\ Returned
    /\ plannedHabits # << >>
    /\ existing # << >>
    /\ \E c \in Range(out) : IsChunk(c) /\ c.s = DayStartMin

\* minutes of the single window two tasks need, buffers included
SpaceFor(t) ==
    LET need == effortOf(t)
        chunks == IF t.splitOK
                  THEN (need + t.maxChunkMin - 1) \div t.maxChunkMin
                  ELSE 1
    IN  need + PostBufferMin * chunks

\* the two tasks differ in priority (and in the title that tells their chunks
\* apart, which plays no part in placement) and in nothing else
SameButPriority(a, b) ==
    /\ a.priority # b.priority
    /\ a.title # b.title
    /\ [a EXCEPT !.priority = 0, !.title = ""] = [b EXCEPT !.priority = 0, !.title = ""]

PriorityCase ==
    /\ Returned
    /\ Len(argTasks) = 2
    /\ SameButPriority(argTasks[1], argTasks[2])
    /\ Len(freeSlots) = 1
    /\ minutesBetween(freeSlots[1].start, freeSlots[1].end)
           >= SpaceFor(argTasks[1]) + SpaceFor(argTasks[2])

ChunksOf(t) == { c \in Range(all) : IsChunk(c) /\ c.title[2] = t.title }

\* C10: of two tasks identical except for priority, placed in a single window
\* large enough for both, every chunk of the higher-priority task starts
\* earlier than every chunk of the other, in both input orders.
C10_PriorityDominance ==
    PriorityCase =>
        LET hi == IF argTasks[1].priority > argTasks[2].priority
                  THEN argTasks[1] ELSE argTasks[2]
            lo == IF argTasks[1].priority > argTasks[2].priority
                  THEN argTasks[2] ELSE argTasks[1]
        IN  /\ ChunksOf(hi) # {}
            /\ ChunksOf(lo) # {}
            /\ \A c \in ChunksOf(hi), d \in ChunksOf(lo) : c.s < d.s

\* the pairs whose maxChunkMin is positive, for which the order holds: the
\* lower priority is supplied first and is cut in two chunks
C10_Witness ==
    /\ PriorityCase
    /\ argTasks[1].priority < argTasks[2].priority
    /\ argTasks[1].splitOK
    /\ Cardinality(ChunksOf(argTasks[1])) >= 2

\* the order the tasks are said to be processed in: priority descending, then
\* deadline ascending with the tasks without a deadline last, then estimated
\* effort descending
ProcessedBefore(a, b) ==
    IF a.priority # b.priority THEN a.priority > b.priority
    ELSE IF a.hasDeadline # b.hasDeadline THEN a.hasDeadline
    ELSE IF a.hasDeadline /\ a.deadline # b.deadline THEN a.deadline < b.deadline
    ELSE a.estimateMin > b.estimateMin

\* C11: the tasks are processed in priority order descending; among equal
\* priorities by deadline ascending, tasks without a deadline last; and among
\* tasks tied on priority and deadline, two tasks with the same valid deadline
\* included, by estimated effort descending.
C11_ProcessingOrder ==
    sortCalled =>
        \A i, j \in 1..Len(sortOut) :
            i < j => ~ProcessedBefore(sortOut[j], sortOut[i])

\* indices of the returned blocks of a kind
ChunkIdx == { i \in 1..Len(all) : IsChunk(all[i]) }
BufferIdx == { i \in 1..Len(all) : IsBuffer(all[i]) }

LectureDayCase ==
    /\ Returned
    /\ existing = LectureDay
    /\ argTasks = << EssayTask >>
    /\ argHabits = << >> /\ m_tasks = << >> /\ m_habits = << >>

\* C12: with 09:00-10:00 busy and one task of 60 minutes (priority 5,
\* maxChunkMin 120, not splittable, no deadline, no bias), planDay returns,
\* whatever the current time, exactly one chunk, of 60 minutes from 06:00, one
\* 5-minute buffer ending at 06:00, one 10-minute buffer starting at 07:00,
\* and no block that overlaps 09:00-10:00.
C12_LectureDayPlan ==
    LectureDayCase =>
        /\ Cardinality(ChunkIdx) = 1
        /\ \A i \in ChunkIdx : all[i].s = 360 /\ all[i].e = 420
        /\ Cardinality(BufferIdx) = 2
        /\ Cardinality({ i \in BufferIdx : all[i].e = 360 /\ all[i].s = 355 }) = 1
        /\ Cardinality({ i \in BufferIdx : all[i].s = 420 /\ all[i].e = 430 }) = 1
        /\ Len(all) = 3
        /\ \A b \in Range(all) : ~Overlap(b.s, b.e, 540, 600)

\* the plan made at a time when both windows are equally early (the day has
\* gone by), the clock having moved during the call
C12_Witness ==
    /\ LectureDayCase
    /\ now = 1321
    /\ Len(all) = 3

\* scheduleHabits was given the windows 08:00-09:00 and 19:00-20:00 and one
\* morning and one evening habit
TwoWindowsCase ==
    /\ shCalled
    /\ shWindows = TwoWindows
    /\ Len(shHabits) = 2
    /\ { shHabits[1].anchor, shHabits[2].anchor } = { "morning", "evening" }

\* C13: with exactly the free windows 08:00-09:00 and 19:00-20:00 and one
\* morning and one evening habit, scheduleHabits places the morning habit at
\* 08:00 and the evening habit at 19:00, for every priority of either habit
\* and either input order.
C13_AnchorsDecide ==
    TwoWindowsCase =>
        /\ Len(shOut) = 2
        /\ \A k \in 1..2 :
               /\ shOut[k].title = << HabitMark, shHabits[k].title >>
               /\ shOut[k].s = (IF shHabits[k].anchor = "morning" THEN 480 ELSE 1140)

\* the evening habit comes first and has the higher priority
C13_Witness ==
    /\ TwoWindowsCase
    /\ shHabits[1].anchor = "evening"
    /\ shHabits[1].priority = 5
    /\ shHabits[2].priority = 1
    /\ Len(shOut) = 2

\* free windows handed back to freeWindows as busy blocks
WindowsAsBusy(ws) == [i \in 1..Len(ws) |-> Ev("Free", ws[i].start, ws[i].end)]

\* freeWindows applied to its own result
Refed == freeWindows(WindowsAsBusy(fwOut), fwMin)

\* the stretches of the day window that the free windows leave out
LeftOut == freeWindows(WindowsAsBusy(fwOut), 0)

NoShortStretch ==
    \A i \in 1..Len(LeftOut) :
        minutesBetween(LeftOut[i].start, LeftOut[i].end) >= fwMin

\* C14 as stated: feeding the free windows of freeWindows(day, B, m) back as
\* the busy input yields the same list of windows as freeWindows(day, B, m).
C14_RefedIsSame ==
    fwCalled => Refed = fwOut

\* C14, amended: feeding the free windows back as the busy input yields the
\* stretches they leave out of the day window, none of which overlaps a free
\* window; feeding those back in turn yields the list of freeWindows(day, B, m)
\* again, whenever no stretch left out is shorter than m.
C14_RefedTwiceIsSame ==
    fwCalled =>
        /\ \A i \in 1..Len(Refed), j \in 1..Len(fwOut) :
               ~Overlap(Refed[i].start, Refed[i].end, fwOut[j].start, fwOut[j].end)
        /\ NoShortStretch =>
               /\ Refed = LeftOut
               /\ freeWindows(WindowsAsBusy(Refed), fwMin) = fwOut

C14_Witness ==
    /\ fwCalled
    /\ fwMin = 15
    /\ Len(fwBusy) = 3
    /\ Len(fwOut) = 2
    /\ NoShortStretch
    /\ Refed # fwOut

\* C15: planDay is deterministic: two runs with the same day, existing blocks,
\* tasks, habits, pools and the same current time return the same list of
\* blocks in the same order and the same summary.  Two runs of the same call
\* are in the same state at a pass of the placement loop as long as they chose
\* the same windows before, and what they return is built from the windows
\* chosen; so they return the same iff, at every pass, the window chosen is the
\* same wherever the clock stands at the instants slotScore reads it.
C15_SameChoice ==
    (pc = "carve" /\ needMin > 0) =>
        \A clk \in ClockReadings(now, Len(pool), MaxTick) :
            bestSlot(pool, tasks[ti], clk, NoRounding(Len(pool)))
                = bestSlot(pool, tasks[ti], StableClock(now, Len(pool)),
                           NoRounding(Len(pool)))

\* the lists planDay is to use: the argument when it is not empty, and
\* otherwise what the most recent setTasks or setHabits call was given
TasksToUse == IF argTasks # << >> THEN argTasks ELSE lastTasks
HabitsToUse == IF argHabits # << >> THEN argHabits ELSE lastHabits

\* C16: after any sequence of setTasks and setHabits calls, planDay uses the
\* task list of the caller when it is not empty and otherwise the pool of the
\* most recent setTasks call, and independently the same for the habits.
C16_PoolsAreDefaults ==
    /\ pc # "idle" =>
           /\ Len(tasks) = Len(TasksToUse)
           /\ Range(tasks) = Range(TasksToUse)
    /\ (Returned /\ freeAfterTasks # << >>) =>
           /\ Len(plannedHabits) = Len(HabitsToUse)
           /\ \A k \in 1..Len(plannedHabits) :
                  /\ plannedHabits[k].title = << HabitMark, HabitsToUse[k].title >>
                  /\ plannedHabits[k].e - plannedHabits[k].s
                         = HabitsToUse[k].targetMinPerDay

\* the task pool of the last setTasks call was used and the habit pool was
\* overridden by the caller's list
C16_Witness ==
    /\ Returned
    /\ argTasks = << >> /\ Len(lastTasks) = 2 /\ Len(tasks) = 2
    /\ argHabits # << >> /\ lastHabits # << >>
    /\ Len(plannedHabits) = 1
    /\ \E c \in Range(out) : IsChunk(c)

\* effort remains for the current task and no fragment of at least 15 minutes
\* is left
NothingUsable ==
    /\ pc = "carve"
    /\ needMin > 0
    /\ \A i \in 1..Len(pool) : minutesBetween(pool[i].s, pool[i].e) < MinUsableMin

\* C17: placement is best-effort and never an error: when no fragment of at
\* least 15 minutes remains for a task, the step the planner takes emits no
\* block and leaves the fragments alone, goes on to the next task when there is
\* one and to the habits otherwise; the planner is never stuck or aborted
\* there, and what planDay returns starts with the blocks placed so far.
C17_BestEffort ==
    /\ [](NothingUsable => ENABLED Next)
    /\ [][NothingUsable =>
             /\ out' = out
             /\ pool' = pool
             /\ IF ti < Len(tasks)
                THEN pc' = "carve" /\ ti' = ti + 1
                     /\ needMin' = Max2(15, tasks[ti + 1].estimateMin)
                ELSE pc' = "habits"]_vars
    /\ [](Returned => SubSeq(all, 1, Len(out)) = out)

\* the first of two tasks was placed, the second found nothing usable, and
\* planDay returned
C17_Witness ==
    /\ Returned
    /\ Len(tasks) = 2
    /\ ChunksOf(tasks[1]) # {}
    /\ ChunksOf(tasks[2]) = {}
    /\ freeSlots # << >>
    /\ Len(all) >= 3

InsertAt(sq, k, x) == SubSeq(sq, 1, k) \o << x >> \o SubSeq(sq, k + 1, Len(sq))

\* C18: a busy interval whose end is at or before its start, added anywhere
\* to the busy input, leaves the result of freeWindows unchanged, and
\* freeWindows still returns a list.
C18_MalformedDropped ==
    fwCalled =>
        \A bad \in MalformedBusy, k \in 0..Len(fwBusy) :
            freeWindowsOf(InsertAt(fwBusy, k, bad), fwMin) = { fwOut }

\* a busy list that holds a malformed interval between two well-formed ones
C18_Witness ==
    /\ fwCalled
    /\ fwMin = 15
    /\ Len(fwBusy) = 3
    /\ fwBusy[2] = Ev("Typo", 720, 660)
    /\ fwBusy[1] = Ev("Lecture", 540, 600)
    /\ fwBusy[3] = Ev("Party", 1290, 1500)
    /\ Len(fwOut) = 2

\* minutes of the returned task chunks, buffers left out
RECURSIVE chunkMinutes(_)
chunkMinutes(evs) ==
    IF evs = << >> THEN 0
    ELSE (IF IsChunk(Head(evs)) THEN Head(evs).e - Head(evs).s ELSE 0)
         + chunkMinutes(Tail(evs))

\* the figures of the summary emitted with analysisComplete
SummaryFigures == emitted[1].text

\* C19: the task-minute figure of the summary is the sum of the durations of
\* all task chunk blocks, buffers left out, whatever the titles of the tasks,
\* and the habit figure is the number of habit blocks placed.
C19_SummaryFigures ==
    Returned =>
        /\ SummaryFigures[1] = chunkMinutes(all)
        /\ SummaryFigures[2] = Cardinality({ i \in 1..Len(all) : IsHabitBlock(all[i]) })

\* minutes of the chunks placed for task t among the blocks evs
RECURSIVE placedMin(_, _)
placedMin(evs, t) ==
    IF evs = << >> THEN 0
    ELSE (IF IsChunk(Head(evs)) /\ Head(evs).title[2] = t.title
          THEN minutesBetween(Head(evs).s, Head(evs).e) ELSE 0)
         + placedMin(Tail(evs), t)

\* the carve call for the k-th task of the sorted list is over
Finished(k) ==
    \/ pc \in { "habits", "returned" }
    \/ pc \in { "carve", "aborted" } /\ k < ti

\* the fragments left once the chunks among evs have been carved out of pl
RECURSIVE poolAfter(_, _)
poolAfter(evs, pl) ==
    IF evs = << >> THEN pl
    ELSE LET c == Head(evs)
             at == { i \in 1..Len(pl) : pl[i].s = c.s }
         IN  IF IsChunk(c) /\ at # {}
             THEN poolAfter(Tail(evs),
                            carvedPool(pl, CHOOSE i \in at : TRUE, c.e + PostBufferMin))
             ELSE poolAfter(Tail(evs), pl)

\* the blocks placed for the tasks before the k-th
RECURSIVE placedBefore(_, _)
placedBefore(evs, k) ==
    IF evs = << >> THEN << >>
    ELSE (IF \E j \in 1..(k - 1) : Head(evs).title[2] = tasks[j].title
          THEN << Head(evs) >> ELSE << >>) \o placedBefore(Tail(evs), k)

\* minutes of the fragments of at least 15 minutes
RECURSIVE usableMin(_)
usableMin(pl) ==
    IF pl = << >> THEN 0
    ELSE (IF minutesBetween(Head(pl).s, Head(pl).e) >= MinUsableMin
          THEN minutesBetween(Head(pl).s, Head(pl).e) ELSE 0)
         + usableMin(Tail(pl))

\* minutes the usable fragments held when the carve call for the k-th task began
SupplyFor(k) == usableMin(poolAfter(placedBefore(out, k), poolOf(freeSlots)))

Splittable(t) == t.splitOK /\ t.maxChunkMin >= 1

\* C20 as stated: the total minutes of a task's chunks never exceeds
\* max(15, effort), and a splittable task whose maxChunkMin is at least 1
\* receives exactly max(15, effort) minutes whenever the free fragments can
\* supply it, that is, hold that many minutes when its turn comes.
C20_ExactWhenSupplied ==
    \A k \in 1..Len(tasks) :
        /\ placedMin(out, tasks[k]) <= Max2(15, tasks[k].estimateMin)
        /\ (Finished(k) /\ Splittable(tasks[k])
              /\ SupplyFor(k) >= Max2(15, tasks[k].estimateMin))
               => placedMin(out, tasks[k]) = Max2(15, tasks[k].estimateMin)

\* C20, amended: the total minutes of a task's chunks never exceeds
\* max(15, effort), and a splittable task whose maxChunkMin is at least 1
\* receives exactly max(15, effort) minutes unless the fragments of at least
\* 15 minutes run out first.
C20_ExactUnlessExhausted ==
    \A k \in 1..Len(tasks) :
        /\ placedMin(out, tasks[k]) <= Max2(15, tasks[k].estimateMin)
        /\ (Finished(k) /\ Splittable(tasks[k]))
               => \/ placedMin(out, tasks[k]) = Max2(15, tasks[k].estimateMin)
                  \/ usableMin(pool) = 0

\* a splittable task was cut short by its post-buffers: the fragments held
\* its effort when its turn came, and ran out before it was all placed
C20_Witness ==
    /\ Returned
    /\ \E k \in 1..Len(tasks) :
           /\ Splittable(tasks[k])
           /\ SupplyFor(k) >= Max2(15, tasks[k].estimateMin)
           /\ placedMin(out, tasks[k]) > 0
           /\ placedMin(out, tasks[k]) < Max2(15, tasks[k].estimateMin)
           /\ usableMin(pool) = 0

\* a step of the placement loop that appends blocks
Placing == Len(out') > Len(out)

\* the chunk such a step appends, and the fragments it may have been cut from
NewChunk == out'[Len(out) + 1]
FragmentsAt(s) == { i \in 1..Len(pool) : pool[i].s = s }

\* C21: every task chunk has length exactly min(maxChunkMin, remaining effort
\* of the task at that step, duration of the chosen fragment); hence no chunk
\* is longer than the task's maxChunkMin or than the fragment it is placed in.
C21_ChunkLength ==
    [][Placing =>
          /\ IsChunk(NewChunk)
          /\ NewChunk.title[2] = tasks[ti].title
          /\ \E i \in FragmentsAt(NewChunk.s) :
                 LET fragMin == pool[i].e - pool[i].s
                     len == NewChunk.e - NewChunk.s
                 IN  /\ len = Min2(tasks[ti].maxChunkMin, Min2(needMin, fragMin))
                     /\ len <= tasks[ti].maxChunkMin
                     /\ len <= fragMin]_vars

\* one task cut into a chunk of maxChunkMin minutes and a shorter one that
\* fills what was left of the fragment
C21_Witness ==
    /\ Returned
    /\ Len(tasks) = 1
    /\ tasks[1].maxChunkMin = 45
    /\ \E c, d \in ChunksOf(tasks[1]) :
           /\ c.e - c.s = 45
           /\ d.e - d.s = 40
           /\ d.e = 455

\* indices of the chunks placed for task t
ChunkIdxOf(t) == { i \in 1..Len(out) : IsChunk(out[i]) /\ out[i].title[2] = t.title }

\* C22: a task with splitOK = false produces at most one chunk, with its two
\* buffers, in a planning run, even when that chunk covers less than the
\* task's effort and usable fragments remain.
C22_NoSplitOneChunk ==
    \A k \in 1..Len(tasks) :
        ~tasks[k].splitOK =>
            /\ Cardinality(ChunkIdxOf(tasks[k])) <= 1
            /\ \A i \in ChunkIdxOf(tasks[k]) :
                   /\ i + 2 <= Len(out)
                   /\ IsBuffer(out[i + 1]) /\ out[i + 1].e = out[i].s
                   /\ IsBuffer(out[i + 2]) /\ out[i + 2].s = out[i].e

\* the unsplittable task got 30 of its 45 minutes and a fragment of 15
\* minutes or more was left when planDay returned
C22_Witness ==
    /\ Returned
    /\ Len(tasks) = 1
    /\ ~tasks[1].splitOK
    /\ Cardinality(ChunkIdxOf(tasks[1])) = 1
    /\ placedMin(out, tasks[1]) < Max2(15, tasks[1].estimateMin)
    /\ usableMin(pool) > 0

AllChunkIdx == { i \in 1..Len(out) : IsChunk(out[i]) }

\* the free windows passed in that hold the instant t
WindowsAt(t) == { k \in 1..Len(freeSlots) : freeSlots[k].start <= t /\ t < freeSlots[k].end }

\* the chunks placed before the i-th block in window k, and the last of them
EarlierIn(k, i) == { j \in AllChunkIdx : j < i /\ k \in WindowsAt(out[j].s) }
LastEarlierIn(k, i) == SetMax(EarlierIn(k, i))

\* C23: every task chunk starts at the start of the fragment chosen for it:
\* at the start of one of the free windows passed in, or exactly at the end of
\* the trailing 10-minute buffer of the chunk placed immediately before it in
\* the same window; and a fragment whose start has reached or passed its end
\* after shrinking is never used again.
C23_ChunkAtFragmentStart ==
    \A i \in AllChunkIdx :
        /\ WindowsAt(out[i].s) # {}
        /\ \A k \in WindowsAt(out[i].s) :
               /\ IF EarlierIn(k, i) = {}
                  THEN out[i].s = freeSlots[k].start
                  ELSE LET j == LastEarlierIn(k, i)
                       IN  /\ IsBuffer(out[j + 2])
                           /\ out[j + 2].s = out[j].e
                           /\ out[j + 2].e = out[j].e + 10
                           /\ out[i].s = out[j + 2].e
               /\ \A j \in EarlierIn(k, i) : out[j].e + 10 < freeSlots[k].end

\* two chunks in one window, the second at the end of the buffer that trails
\* the first and using the window up, so that the next task finds no room
C23_Witness ==
    /\ Returned
    /\ Len(tasks) = 2
    /\ ChunkIdxOf(tasks[2]) = {}
    /\ \E i, j \in AllChunkIdx :
           /\ i < j
           /\ out[j].s = out[i].e + 10
           /\ \E k \in WindowsAt(out[j].s) :
                  /\ k \in WindowsAt(out[i].s)
                  /\ out[j].e + 10 >= freeSlots[k].end

\* C24: for a task whose maxChunkMin is at least 15, every chunk placed is at
\* least 15 minutes long.
C24_MinChunk ==
    \A k \in 1..Len(tasks) :
        tasks[k].maxChunkMin >= 15 =>
            \A i \in ChunkIdxOf(tasks[k]) : out[i].e - out[i].s >= 15

\* window j gets the same double as window b for habit h
SameTerms(ws, h, j, b) ==
    /\ minutesBetween(ws[j].start, ws[j].end) = minutesBetween(ws[b].start, ws[b].end)
    /\ anchorHit(ws[j], h) = anchorHit(ws[b], h)

\* the windows of highest score that habit h may be placed in: none of the
\* same score comes before them
FirstBest(ws, h) ==
    { b \in topWindows(ws, h) :
        \A j \in topWindows(ws, h) : j < b => ~SameTerms(ws, h, j, b) }

\* the first of the longest windows of ws
FirstLongest(ws) ==
    SetMin({ b \in 1..Len(ws) :
               \A i \in 1..Len(ws) : ws[i].end - ws[i].start <= ws[b].end - ws[b].start })

\* blocks holds one block per habit of hs, at the start of the habit's window
HabitsAtBest(ws, hs, blocks) ==
    /\ Len(blocks) = Len(hs)
    /\ \A k \in 1..Len(hs) :
           /\ IsHabitBlock(blocks[k])
           /\ blocks[k].title[2] = hs[k].title
           /\ \E b \in FirstBest(ws, hs[k]) : blocks[k].s = ws[b].start
           /\ blocks[k].e = blocks[k].s + hs[k].targetMinPerDay
           /\ hs[k].anchor = "" => blocks[k].s = ws[FirstLongest(ws)].start

\* C25: each habit block starts exactly at the start of the highest-scoring
\* free window and lasts exactly targetMinPerDay, without being cut at the
\* window's end; for a habit without an anchor that window is the longest one,
\* the earliest of them when several are equally long.
C25_HabitAtBestWindow ==
    (shCalled /\ shWindows # << >>) => HabitsAtBest(shWindows, shHabits, shOut)

\* three windows of one hour: the habit without an anchor, 90 minutes long,
\* is placed at the first and runs past its end; the evening habit at the last
C25_Witness ==
    /\ shCalled
    /\ Len(shWindows) = 3
    /\ Len(shHabits) = 2
    /\ shHabits[1].anchor = "" /\ shHabits[2].anchor = "evening"
    /\ shOut[1].s = shWindows[1].start
    /\ shOut[1].e > shWindows[1].end
    /\ shOut[2].s = shWindows[3].start

\* minutes of the day window that no existing busy block covers
FreeOfDay ==
    { m \in DayMinutes : \A b \in Range(existing) : ~(b.s <= m /\ m < b.e) }

\* block c begins and ends inside [from, to]
Inside(c, from, to) ==
    /\ from <= c.s /\ c.s <= to
    /\ from <= c.e /\ c.e <= to

\* C26: every task chunk, buffers excluded, lies entirely inside one of the
\* free windows computed from the existing busy blocks: within 06:00-22:00,
\* overlapping no existing busy interval and no other task chunk, so that the
\* chunk minutes in total never exceed the free minutes of the day.
C26_ChunksInFreeWindows ==
    Returned =>
        /\ \A i \in AllChunkIdx :
               /\ \E w \in Range(freeSlots) : Inside(out[i], w.start, w.end)
               /\ Inside(out[i], DayStartMin, DayEndMin)
               /\ \A b \in Range(existing) : ~BlocksOverlap(out[i], b)
               /\ \A j \in AllChunkIdx \ { i } : ~BlocksOverlap(out[i], out[j])
        /\ chunkMinutes(out) <= Cardinality(FreeOfDay)

\* the fragments of the pool of at least 15 minutes that start in hours lo..hi
UsableIn(lo, hi) ==
    { i \in 1..Len(pool) :
        /\ pool[i].e - pool[i].s >= 15
        /\ hourOf(pool[i].s) >= lo /\ hourOf(pool[i].s) <= hi }

\* C27: for a task with only the morning flag, whenever a fragment of at least
\* 15 minutes starts in hours 7 to 12, the fragment chosen for the next chunk
\* starts in hours 7 to 12, whatever the other fragments and the current time;
\* the same for the afternoon flag and hours 13 to 17.
C27_BiasDecides ==
    [][Placing =>
          /\ (tasks[ti].mustMorning /\ ~tasks[ti].mustAfternoon
                  /\ UsableIn(7, 12) # {})
                 => NewChunk.s \in { pool[i].s : i \in UsableIn(7, 12) }
          /\ (tasks[ti].mustAfternoon /\ ~tasks[ti].mustMorning
                  /\ UsableIn(13, 17) # {})
                 => NewChunk.s \in { pool[i].s : i \in UsableIn(13, 17) }]_vars

\* at 05:30, with 06:00-08:00 and 12:45-13:00 free, the first chunk of the
\* morning task is placed at 12:45 and the next one, with no morning fragment
\* left, at 06:00
C27_Witness ==
    /\ Returned
    /\ now = 330
    /\ freeSlots = << Window(360, 480), Window(765, 780) >>
    /\ Len(tasks) = 1
    /\ tasks[1].mustMorning /\ ~tasks[1].mustAfternoon
    /\ out[1].s = 765 /\ out[1].e = 780
    /\ out[4].s = 360

\* the fragments of at least 15 minutes
Usable == { i \in 1..Len(pool) : pool[i].e - pool[i].s >= 15 }

\* the score of the i-th fragment for the task being placed, the clock at now
ScoreAt(i) ==
    slotScore(Window(pool[i].s, pool[i].e), tasks[ti],
              [urgency |-> now, early |-> now], 0)

\* the usable fragments that none scores above
TopScored ==
    { i \in Usable :
        \A j \in Usable : ~ScoreGT(ScoreAt(j), ScoreAt(i), ScoreScale) }

\* the terms of the score of the i-th fragment, the clock at now
TermsAt(i) ==
    slotTerms(Window(pool[i].s, pool[i].e), tasks[ti],
              [urgency |-> now, early |-> now])

\* C28: when several usable fragments have the same highest score for a task,
\* the fragment chosen is the one that comes first in the pool, which is the
\* earliest of them in the day.
C28_TieToEarliest ==
    [][(Placing /\ now' = now) =>
          \E b \in TopScored :
              /\ NewChunk.s = pool[b].s
              /\ \A j \in TopScored :
                     TermsAt(j) = TermsAt(b) =>
                         b <= j /\ pool[b].s <= pool[j].s]_vars

\* C29: any two habits with the same anchor, or both without one, are placed
\* at the same start time in one planning run, whatever their priorities and
\* durations.
C29_SameAnchorSameStart ==
    (shCalled /\ shWindows # << >>) =>
        \A k, l \in 1..Len(shHabits) :
            shHabits[k].anchor = shHabits[l].anchor => shOut[k].s = shOut[l].s

\* how many times signal sg has been emitted in the call
TimesEmitted(sg) == Cardinality({ i \in 1..Len(emitted) : emitted[i].sig = sg })

\* generateSmartSuggestions has returned
Suggested == pc = "suggested"

\* C30: each call of generateSmartSuggestions emits suggestionsReady exactly
\* once, and each call of planDay emits analysisComplete, then
\* plannedEventsReady, then suggestionsReady, exactly once each and in that
\* order, the two event signals carrying the block list planDay returns.
C30_SignalsOnce ==
    /\ (Returned \/ Suggested) =>
           /\ Len(emitted) >= 3
           /\ emitted[1].sig = "analysisComplete"
           /\ emitted[2] = [sig |-> "plannedEventsReady", events |-> all]
           /\ emitted[3] = [sig |-> "suggestionsReady", events |-> all]
    /\ Returned => Len(emitted) = 3
    /\ Suggested => TimesEmitted("suggestionsReady") = 1

====
